---- MODULE Spec2Model ----
(***************************************************************************)
(* Ride sharing system (Ride_Sharing_System.cpp): Ride / StandardRide /    *)
(* PremiumRide, Driver, Rider, demonstratePolymorphism and the shared_ptr  *)
(* ownership of rides.                                                     *)
(*                                                                         *)
(* The program computes fares and totals in C++ `double`.  The model keeps *)
(* that arithmetic: a double is a sign, a 53 bit significand and a binary  *)
(* exponent, products and sums are rounded to nearest (ties to even) as    *)
(* IEEE 754 binary64 does, and `std::fixed << std::setprecision(2)` is the *)
(* correctly rounded two decimal rendering of the exact binary value.      *)
(* Significands do not fit TLC's 32 bit integers, so they are little       *)
(* endian sequences of 15 bit limbs.  Values stay inside the normal range  *)
(* of binary64 (no overflow, subnormals, infinities or NaN): every input   *)
(* of the model is a decimal literal of moderate size.                     *)
(***************************************************************************)
EXTENDS Integers, Sequences, FiniteSets, TLC

(***************************************************************************)
(* Natural numbers of arbitrary size: little endian limbs, no high zeros.  *)
(***************************************************************************)
LimbBits == 15
Base == 32768

RECURSIVE BNorm(_)
BNorm(a) ==
  IF a = <<>> THEN a
  ELSE IF a[Len(a)] = 0 THEN BNorm(SubSeq(a, 1, Len(a) - 1)) ELSE a

RECURSIVE BFromInt(_)
BFromInt(n) == IF n = 0 THEN <<>> ELSE <<n % Base>> \o BFromInt(n \div Base)

RECURSIVE BAddC(_, _, _)
BAddC(a, b, c) ==
  IF a = <<>> /\ b = <<>> THEN (IF c = 0 THEN <<>> ELSE <<c>>)
  ELSE LET x == IF a = <<>> THEN 0 ELSE Head(a)
           y == IF b = <<>> THEN 0 ELSE Head(b)
           ta == IF a = <<>> THEN a ELSE Tail(a)
           tb == IF b = <<>> THEN b ELSE Tail(b)
           t == x + y + c
       IN  <<t % Base>> \o BAddC(ta, tb, t \div Base)

BAdd(a, b) == BAddC(a, b, 0)

RECURSIVE BSubB(_, _, _)
BSubB(a, b, w) ==
  IF a = <<>> THEN <<>>
  ELSE LET y == IF b = <<>> THEN 0 ELSE Head(b)
           tb == IF b = <<>> THEN b ELSE Tail(b)
           t == Head(a) - y - w
       IN  IF t < 0 THEN <<t + Base>> \o BSubB(Tail(a), tb, 1)
           ELSE <<t>> \o BSubB(Tail(a), tb, 0)

\* a - b for a >= b
BSub(a, b) == BNorm(BSubB(a, b, 0))

RECURSIVE BCmpFrom(_, _, _)
BCmpFrom(a, b, i) ==
  IF i = 0 THEN 0
  ELSE IF a[i] > b[i] THEN 1
  ELSE IF a[i] < b[i] THEN -1
  ELSE BCmpFrom(a, b, i - 1)

\* -1, 0, 1 as a < b, a = b, a > b
BCmp(a, b) ==
  IF Len(a) > Len(b) THEN 1
  ELSE IF Len(a) < Len(b) THEN -1
  ELSE BCmpFrom(a, b, Len(a))

RECURSIVE BMulLimb(_, _, _)
BMulLimb(a, k, c) ==
  IF a = <<>> THEN (IF c = 0 THEN <<>> ELSE <<c>>)
  ELSE LET t == Head(a) * k + c
       IN  <<t % Base>> \o BMulLimb(Tail(a), k, t \div Base)

RECURSIVE BMulU(_, _)
BMulU(a, b) ==
  IF b = <<>> THEN <<>>
  ELSE BAdd(BMulLimb(a, Head(b), 0), <<0>> \o BMulU(a, Tail(b)))

BMul(a, b) == BNorm(BMulU(a, b))

\* a * 2^n
BShl(a, n) ==
  IF a = <<>> THEN a
  ELSE [i \in 1..(n \div LimbBits) |-> 0] \o BMulLimb(a, 2 ^ (n % LimbBits), 0)

\* floor(a / 2^n)
BShr(a, n) ==
  LET q == n \div LimbBits
      r == n % LimbBits
      d == IF q >= Len(a) THEN <<>> ELSE SubSeq(a, q + 1, Len(a))
  IN  BNorm([i \in 1..Len(d) |->
               (d[i] \div (2 ^ r))
               + (IF i < Len(d) THEN (d[i + 1] % (2 ^ r)) * (2 ^ (LimbBits - r))
                  ELSE 0)])

RECURSIVE BitLenLimb(_)
BitLenLimb(x) == IF x = 0 THEN 0 ELSE 1 + BitLenLimb(x \div 2)

BBitLen(a) ==
  IF a = <<>> THEN 0 ELSE LimbBits * (Len(a) - 1) + BitLenLimb(a[Len(a)])

BIsOdd(a) == a # <<>> /\ a[1] % 2 = 1

\* quotient and remainder of a by a small k (0 < k < Base)
RECURSIVE BDivMod(_, _)
BDivMod(a, k) ==
  IF a = <<>> THEN [q |-> <<>>, r |-> 0]
  ELSE LET hi == BDivMod(Tail(a), k)
           t == hi.r * Base + Head(a)
       IN  [q |-> <<t \div k>> \o hi.q, r |-> t % k]

\* a rounded to the nearest multiple of 2^n, ties to even, divided by 2^n;
\* sticky says that the exact value lies strictly above a
BRoundShr(a, n, sticky) ==
  IF n = 0 THEN a
  ELSE LET q == BShr(a, n)
           rem == BSub(a, BShl(q, n))
           c == BCmp(rem, BShl(<<1>>, n - 1))
       IN  IF c = 1 \/ (c = 0 /\ (sticky \/ BIsOdd(q)))
           THEN BAdd(q, <<1>>) ELSE q

(***************************************************************************)
(* binary64: (-1)^s * m * 2^e with 2^52 <= m < 2^53, or m = <<>> for zero. *)
(***************************************************************************)
SigBits == 53

DZero(s) == [s |-> s, m |-> <<>>, e |-> 0]

\* the double nearest to (-1)^s * M * 2^E (ties to even)
DRound(s, M, E, sticky) ==
  IF M = <<>> THEN DZero(s)
  ELSE LET L == BBitLen(M)
       IN  IF L <= SigBits
           THEN [s |-> s, m |-> BShl(M, SigBits - L), e |-> E - (SigBits - L)]
           ELSE LET sh == L - SigBits
                    q == BRoundShr(M, sh, sticky)
                IN  IF BBitLen(q) > SigBits
                    THEN [s |-> s, m |-> BShr(q, 1), e |-> E + sh + 1]
                    ELSE [s |-> s, m |-> q, e |-> E + sh]

\* x * y
DMul(x, y) ==
  IF x.m = <<>> \/ y.m = <<>> THEN DZero((x.s + y.s) % 2)
  ELSE DRound((x.s + y.s) % 2, BMul(x.m, y.m), x.e + y.e, FALSE)

\* x + y
DAdd(x, y) ==
  IF x.m = <<>> /\ y.m = <<>> THEN DZero(IF x.s = 1 /\ y.s = 1 THEN 1 ELSE 0)
  ELSE IF x.m = <<>> THEN y
  ELSE IF y.m = <<>> THEN x
  ELSE LET e == IF x.e < y.e THEN x.e ELSE y.e
           X == BShl(x.m, x.e - e)
           Y == BShl(y.m, y.e - e)
           c == BCmp(X, Y)
       IN  IF x.s = y.s THEN DRound(x.s, BAdd(X, Y), e, FALSE)
           ELSE IF c = 0 THEN DZero(0)
           ELSE IF c = 1 THEN DRound(x.s, BSub(X, Y), e, FALSE)
           ELSE DRound(y.s, BSub(Y, X), e, FALSE)

\* x < y as numbers (-0.0 is not below 0.0)
DLess(x, y) ==
  LET e == IF x.e < y.e THEN x.e ELSE y.e
      X == IF x.m = <<>> THEN <<>> ELSE BShl(x.m, x.e - e)
      Y == IF y.m = <<>> THEN <<>> ELSE BShl(y.m, y.e - e)
      c == BCmp(X, Y)
  IN  IF X = <<>> /\ Y = <<>> THEN FALSE
      ELSE IF x.s # y.s THEN x.s = 1
      ELSE IF x.s = 0 THEN c = -1 ELSE c = 1

LitShift == 72

\* the double a literal with digits n and k decimals denotes (n / 10^k),
\* negated when s = 1; n < 2^31, k <= 3
DLit(s, n, k) ==
  IF n = 0 THEN DZero(s)
  ELSE LET dm == BDivMod(BShl(BFromInt(n), LitShift), 10 ^ k)
       IN  DRound(s, BNorm(dm.q), -LitShift, dm.r # 0)

(***************************************************************************)
(* operator<<(double) under std::fixed, std::setprecision(2)               *)
(***************************************************************************)
DigitChar == <<"0", "1", "2", "3", "4", "5", "6", "7", "8", "9">>

RECURSIVE BDecimal(_)
BDecimal(a) ==
  IF a = <<>> THEN ""
  ELSE LET dm == BDivMod(a, 10)
       IN  BDecimal(BNorm(dm.q)) \o DigitChar[dm.r + 1]

\* |x| * 100 rounded to an integer, ties to even, on the exact value of x
DCents(x) ==
  IF x.m = <<>> THEN <<>>
  ELSE LET N == BMulLimb(x.m, 100, 0)
       IN  IF x.e >= 0 THEN BShl(N, x.e) ELSE BRoundShr(N, -x.e, FALSE)

FormatFixed2(x) ==
  LET dm1 == BDivMod(DCents(x), 10)
      dm2 == BDivMod(BNorm(dm1.q), 10)
      ip == BDecimal(BNorm(dm2.q))
  IN  (IF x.s = 1 THEN "-" ELSE "")
      \o (IF ip = "" THEN "0" ELSE ip)
      \o "." \o DigitChar[dm2.r + 1] \o DigitChar[dm1.r + 1]

(***************************************************************************)
(* operator<<(double) in the stream's default state: %g with 6 significant *)
(* digits.  The exact value is rounded to 6 significant digits (ties to    *)
(* even); with X the decimal exponent of the rounded value, the style is   *)
(* exponent (d.ddddde+XX) when X < -4 or X >= 6 and fixed with 5 - X       *)
(* decimals otherwise, and trailing zeros of the fraction are removed.     *)
(* The limb recursions bound the magnitudes this can be evaluated on to    *)
(* 1e-40 <= |x| <= 1e40 and zero; literals of up to ten digits and their   *)
(* fares and totals stay below 1e12.                                       *)
(***************************************************************************)
RECURSIVE BToInt(_)
BToInt(a) == IF a = <<>> THEN 0 ELSE Head(a) + Base * BToInt(Tail(a))

RECURSIVE BPow10(_)
BPow10(n) ==
  IF n <= 9 THEN BFromInt(10 ^ n)
  ELSE IF n % 2 = 1 THEN BMulLimb(BPow10(n - 1), 10, 0)
  ELSE LET h == BPow10(n \div 2) IN BMul(h, h)

\* floor(a / 10^n), and in st whether anything was cut off
RECURSIVE BDivPow10(_, _)
BDivPow10(a, n) ==
  IF n = 0 THEN [q |-> a, st |-> FALSE]
  ELSE LET k == IF n >= 4 THEN 4 ELSE n
           hi == BDivPow10(a, n - k)
           dm == BDivMod(hi.q, 10 ^ k)
       IN  [q |-> BNorm(dm.q), st |-> hi.st \/ dm.r # 0]

\* floor(a / 2^n), and in st whether anything was cut off
BDivPow2(a, n) ==
  LET q == BShr(a, n)
  IN  [q |-> q, st |-> BShl(q, n) # a]

\* the integer nearest to a value v, ties to even, from floor(2 * v) and
\* whether 2 * v is above that floor
BRoundHalf(w, st) ==
  LET q == BShr(w, 1)
  IN  IF BIsOdd(w) /\ (st \/ BIsOdd(q)) THEN BAdd(q, <<1>>) ELSE q

\* |x| * 10^p rounded to an integer, ties to even (p may be negative)
DScaled(x, p) ==
  IF p >= 0
  THEN LET N == BMul(x.m, BPow10(p))
       IN  IF x.e >= 0 THEN BShl(N, x.e) ELSE BRoundShr(N, -x.e, FALSE)
  ELSE IF x.e >= 0
  THEN LET d == BDivPow10(BShl(x.m, x.e + 1), -p)
       IN  BRoundHalf(d.q, d.st)
  ELSE LET d == BDivPow10(BShl(x.m, 1), -p)
           h == BDivPow2(d.q, -x.e)
       IN  BRoundHalf(h.q, d.st \/ h.st)

Million == BFromInt(1000000)

\* the least X >= X0 at which |x| / 10^(X-5) rounds below 10^6
RECURSIVE DExp10From(_, _)
DExp10From(x, X) ==
  IF BCmp(DScaled(x, 5 - X), Million) = -1 THEN X
  ELSE DExp10From(x, X + 1)

\* the decimal exponent of |x| rounded to 6 significant digits;
\* 2^(t-1) <= |x| < 2^t bounds it from below (0.30102 < log10(2) < 0.30103)
DExp10(x) ==
  LET t == BBitLen(x.m) + x.e
      lo == ((t - 1) * (IF t >= 1 THEN 30102 ELSE 30103)) \div 100000
  IN  DExp10From(x, lo)

RECURSIVE FracDigits(_, _)
FracDigits(f, p) ==
  IF p = 0 THEN "" ELSE FracDigits(f \div 10, p - 1) \o DigitChar[(f % 10) + 1]

\* digits d with p decimals, trailing zeros of the fraction removed
RECURSIVE TrimmedDecimal(_, _)
TrimmedDecimal(d, p) ==
  IF p > 0 /\ d % 10 = 0 THEN TrimmedDecimal(d \div 10, p - 1)
  ELSE IF p = 0 THEN ToString(d)
  ELSE ToString(d \div (10 ^ p)) \o "." \o FracDigits(d % (10 ^ p), p)

\* the exponent part of the exponent style: sign and at least two digits
ExponentPart(X) ==
  LET a == IF X < 0 THEN -X ELSE X
  IN  "e" \o (IF X < 0 THEN "-" ELSE "+")
      \o (IF a < 10 THEN "0" ELSE "") \o ToString(a)

FormatGeneral6(x) ==
  (IF x.s = 1 THEN "-" ELSE "")
  \o (IF x.m = <<>> THEN "0"
      ELSE LET X == DExp10(x)
               D == BToInt(DScaled(x, 5 - X))
           IN  IF X < -4 \/ X >= 6
               THEN TrimmedDecimal(D, 5) \o ExponentPart(X)
               ELSE TrimmedDecimal(D, 5 - X))

\* operator<<(std::ostream&, double) with the stream's sticky format state
FormatDouble(x, fixed) ==
  IF fixed THEN FormatFixed2(x) ELSE FormatGeneral6(x)

(***************************************************************************)
(* The program state.                                                      *)
(*   rides       the Ride objects allocated by std::make_shared, by        *)
(*               address (1, 2, ...); an object keeps its slot after it    *)
(*               is destroyed                                              *)
(*   useCount    use_count of the shared_ptr control block of each ride;   *)
(*               the ride is destroyed when it drops to 0                  *)
(*   handle      whether the caller's local shared_ptr returned by         *)
(*               make_shared (standardRide1, ...) is still in scope        *)
(*   driver1     the Driver object, rider1 the Rider object                *)
(*   allRides    the caller's vector handed to demonstratePolymorphism     *)
(*   alive       which of driver1, rider1, allRides are constructed and    *)
(*               not yet destroyed                                         *)
(*   out         the lines the last operation wrote to std::cout           *)
(*   coutFixed   std::cout carries std::fixed and precision 2 (sticky)     *)
(*   ret         the last operation when it was a direct call on a ride,   *)
(*               with the value it returned (fn is "none" otherwise)       *)
(*   addLog, requestLog  the rides passed to addRide / requestRide, in     *)
(*               call order                                                *)
(***************************************************************************)
VARIABLES rides, useCount, handle, driver1, rider1, allRides, alive,
          out, coutFixed, ret, addLog, requestLog

vars == <<rides, useCount, handle, driver1, rider1, allRides, alive,
          out, coutFixed, ret, addLog, requestLog>>

(***************************************************************************)
(* Ride, StandardRide, PremiumRide                                         *)
(***************************************************************************)
Ride(id, pickup, dropoff, dist) ==
  [cls |-> "Ride", rideID |-> id, pickupLocation |-> pickup,
   dropoffLocation |-> dropoff, distance |-> dist,
   baseFareRate |-> DLit(0, 20, 1)]

\* StandardRide with the rate mistyped as 0.0
StandardRide_zeroRate(id, pickup, dropoff, dist) ==
  [Ride(id, pickup, dropoff, dist) EXCEPT
     !.cls = "StandardRide", !.baseFareRate = DZero(0)]


StandardRide(id, pickup, dropoff, dist) ==
  [Ride(id, pickup, dropoff, dist) EXCEPT
     !.cls = "StandardRide", !.baseFareRate = DLit(0, 20, 1)]

PremiumRide(id, pickup, dropoff, dist) ==
  LET base == Ride(id, pickup, dropoff, dist)
  IN  [cls |-> "PremiumRide", rideID |-> base.rideID,
       pickupLocation |-> base.pickupLocation,
       dropoffLocation |-> base.dropoffLocation,
       distance |-> base.distance,
       baseFareRate |-> DLit(0, 35, 1),
       luxuryMultiplier |-> DLit(0, 18, 1)]

Ride_fare(r) == DMul(r.distance, r.baseFareRate)

\* StandardRide::fare adding the rate instead of multiplying by it
StandardRide_fare_sum(r) == DAdd(r.distance, r.baseFareRate)


StandardRide_fare(r) == DMul(r.distance, r.baseFareRate)

\* PremiumRide::fare without the luxury multiplier
PremiumRide_fare_noLuxury(r) == DMul(r.distance, r.baseFareRate)


PremiumRide_fare(r) ==
  DMul(DMul(r.distance, r.baseFareRate), r.luxuryMultiplier)

\* fare() bound statically to Ride::fare (not virtual)
fare_static(r) == Ride_fare(r)

\* ride->fare(): the final overrider of the object's dynamic class
fare(r) ==
  CASE r.cls = "StandardRide" -> StandardRide_fare(r)
    [] r.cls = "PremiumRide" -> PremiumRide_fare(r)
    [] OTHER -> Ride_fare(r)

Ride_getRideType(r) == "Standard"

StandardRide_getRideType(r) == "Standard"

PremiumRide_getRideType(r) == "Premium"

\* ride->getRideType()
getRideType(r) ==
  CASE r.cls = "StandardRide" -> StandardRide_getRideType(r)
    [] r.cls = "PremiumRide" -> PremiumRide_getRideType(r)
    [] OTHER -> Ride_getRideType(r)

\* Ride::rideDetails() on a stream whose fixed flag is `fixed`; the Fare
\* line leaves the stream fixed with precision 2
Ride_rideDetails(r, fixed) ==
  << "Ride ID: " \o ToString(r.rideID),
     "Pickup: " \o r.pickupLocation,
     "Dropoff: " \o r.dropoffLocation,
     "Distance: " \o FormatDouble(r.distance, fixed) \o " miles",
     "Fare: $" \o FormatFixed2(fare(r)) >>

PremiumRide_rideDetails(r, fixed) ==
  << "=== PREMIUM RIDE ===" >>
  \o Ride_rideDetails(r, fixed)
  \o << "Luxury Multiplier: " \o FormatDouble(r.luxuryMultiplier, TRUE) \o "x" >>

\* ride->rideDetails(): StandardRide inherits Ride::rideDetails
rideDetails(r, fixed) ==
  CASE r.cls = "PremiumRide" -> PremiumRide_rideDetails(r, fixed)
    [] OTHER -> Ride_rideDetails(r, fixed)

(***************************************************************************)
(* Driver, Rider                                                           *)
(***************************************************************************)
Driver(id, driverName, driverRating) ==
  [driverID |-> id, name |-> driverName, rating |-> driverRating,
   assignedRides |-> <<>>]

Rider(id, riderName) ==
  [riderID |-> id, name |-> riderName, requestedRides |-> <<>>]

\* the accumulation loop stopping one element early
RECURSIVE SumFares_skipLast(_, _, _, _)
SumFares_skipLast(heap, v, i, acc) ==
  IF i >= Len(v) THEN acc
  ELSE SumFares_skipLast(heap, v, i + 1, DAdd(acc, fare(heap[v[i]])))

\* the accumulation loops of getDriverInfo, viewRides and
\* demonstratePolymorphism: acc += v[i]->fare() for i, i+1, ...
RECURSIVE SumFares(_, _, _, _)
SumFares(heap, v, i, acc) ==
  IF i > Len(v) THEN acc
  ELSE SumFares(heap, v, i + 1, DAdd(acc, fare(heap[v[i]])))

\* the loop body output of viewRides from entry i on
RECURSIVE ViewLoop(_, _, _, _)
ViewLoop(heap, v, i, fixed) ==
  IF i > Len(v) THEN <<>>
  ELSE << "", "--- Ride " \o ToString(i) \o " ---" >>
       \o rideDetails(heap[v[i]], fixed)
       \o ViewLoop(heap, v, i + 1, TRUE)

\* the loop body output of demonstratePolymorphism from entry i on
RECURSIVE PolyLoop(_, _, _, _)
PolyLoop(heap, v, i, fixed) ==
  IF i > Len(v) THEN <<>>
  ELSE << "", "--- " \o getRideType(heap[v[i]]) \o " Ride ---" >>
       \o rideDetails(heap[v[i]], fixed)
       \o PolyLoop(heap, v, i + 1, TRUE)

\* use_count after n more references to ride i
Retain(uc, i, n) == [uc EXCEPT ![i] = @ + n]

\* use_count after every element of the vector v has been destroyed
RECURSIVE ReleaseAll(_, _)
ReleaseAll(uc, v) ==
  IF v = <<>> THEN uc
  ELSE ReleaseAll([uc EXCEPT ![Head(v)] = @ - 1], Tail(v))

\* use_count after every element of the vector v has been copied
RECURSIVE RetainAll(_, _)
RetainAll(uc, v) ==
  IF v = <<>> THEN uc
  ELSE RetainAll([uc EXCEPT ![Head(v)] = @ + 1], Tail(v))

Init ==
  /\ rides = <<>>
  /\ useCount = <<>>
  /\ handle = <<>>
  /\ driver1 = Driver(101, "John Smith", DLit(0, 48, 1))
  /\ rider1 = Rider(201, "Alice Brown")
  /\ allRides = <<>>
  /\ alive = [driver1 |-> TRUE, rider1 |-> TRUE, allRides |-> FALSE]
  /\ out = <<>>
  /\ coutFixed = FALSE
  /\ ret = [fn |-> "none"]
  /\ addLog = <<>>
  /\ requestLog = <<>>

(***************************************************************************)
(* Operations                                                              *)
(***************************************************************************)
\* auto h = std::make_shared<cls>(id, pickup, dropoff, dist)
MakeShared(cls, id, pickup, dropoff, dist) ==
  /\ rides' = Append(rides,
                     IF cls = "PremiumRide"
                     THEN PremiumRide(id, pickup, dropoff, dist)
                     ELSE StandardRide(id, pickup, dropoff, dist))
  /\ useCount' = Append(useCount, 1)
  /\ handle' = Append(handle, TRUE)
  /\ out' = <<>>
  /\ ret' = [fn |-> "none"]
  /\ UNCHANGED <<driver1, rider1, allRides, alive, coutFixed,
                 addLog, requestLog>>

\* addRide ignoring a ride the driver already has
addRide_dedup(i) ==
  /\ alive.driver1
  /\ i \in DOMAIN rides /\ handle[i]
  /\ LET have == \E k \in DOMAIN driver1.assignedRides :
                   driver1.assignedRides[k] = i
     IN  /\ driver1' = IF have THEN driver1
                       ELSE [driver1 EXCEPT !.assignedRides = Append(@, i)]
         /\ useCount' = IF have THEN useCount ELSE Retain(useCount, i, 1)
  /\ addLog' = Append(addLog, i)
  /\ out' = <<>>
  /\ ret' = [fn |-> "none"]
  /\ UNCHANGED <<rides, handle, rider1, allRides, alive, coutFixed,
                 requestLog>>

\* addRide keeping a pointer that does not share ownership
addRide_nonOwning(i) ==
  /\ alive.driver1
  /\ i \in DOMAIN rides /\ handle[i]
  /\ driver1' = [driver1 EXCEPT !.assignedRides = Append(@, i)]
  /\ addLog' = Append(addLog, i)
  /\ out' = <<>>
  /\ ret' = [fn |-> "none"]
  /\ UNCHANGED <<rides, useCount, handle, rider1, allRides, alive, coutFixed,
                 requestLog>>

\* driver1.addRide(h) with h the handle of ride i
addRide(i) ==
  /\ alive.driver1
  /\ i \in DOMAIN rides /\ handle[i]
  /\ driver1' = [driver1 EXCEPT !.assignedRides = Append(@, i)]
  /\ useCount' = Retain(useCount, i, 1)
  /\ addLog' = Append(addLog, i)
  /\ out' = <<>>
  /\ ret' = [fn |-> "none"]
  /\ UNCHANGED <<rides, handle, rider1, allRides, alive, coutFixed,
                 requestLog>>

\* driver1.getDriverInfo()
getDriverInfo ==
  /\ alive.driver1
  /\ LET totalEarnings ==
           SumFares(rides, driver1.assignedRides, 1, DZero(0))
     IN  out' = << "", "=== DRIVER INFORMATION ===",
                   "Driver ID: " \o ToString(driver1.driverID),
                   "Name: " \o driver1.name,
                   "Rating: " \o FormatDouble(driver1.rating, coutFixed)
                     \o "/5.0",
                   "Total Rides Completed: "
                     \o ToString(Len(driver1.assignedRides)),
                   "Total Earnings: $" \o FormatFixed2(totalEarnings) >>
  /\ coutFixed' = TRUE
  /\ ret' = [fn |-> "none"]
  /\ UNCHANGED <<rides, useCount, handle, driver1, rider1, allRides, alive,
                 addLog, requestLog>>

\* requestRide ignoring a ride the rider already has
requestRide_dedup(i) ==
  /\ alive.rider1
  /\ i \in DOMAIN rides /\ handle[i]
  /\ LET have == \E k \in DOMAIN rider1.requestedRides :
                   rider1.requestedRides[k] = i
     IN  /\ rider1' = IF have THEN rider1
                      ELSE [rider1 EXCEPT !.requestedRides = Append(@, i)]
         /\ useCount' = IF have THEN useCount ELSE Retain(useCount, i, 1)
  /\ requestLog' = Append(requestLog, i)
  /\ out' = << "Ride requested by " \o rider1.name
               \o " (ID: " \o ToString(rider1.riderID) \o ")" >>
  /\ ret' = [fn |-> "none"]
  /\ UNCHANGED <<rides, handle, driver1, allRides, alive, coutFixed,
                 addLog>>

\* requestRide inserting at the front of the collection
requestRide_front(i) ==
  /\ alive.rider1
  /\ i \in DOMAIN rides /\ handle[i]
  /\ rider1' = [rider1 EXCEPT !.requestedRides = <<i>> \o @]
  /\ useCount' = Retain(useCount, i, 1)
  /\ requestLog' = Append(requestLog, i)
  /\ out' = << "Ride requested by " \o rider1.name
               \o " (ID: " \o ToString(rider1.riderID) \o ")" >>
  /\ ret' = [fn |-> "none"]
  /\ UNCHANGED <<rides, handle, driver1, allRides, alive, coutFixed,
                 addLog>>

\* rider1.requestRide(h) with h the handle of ride i
requestRide(i) ==
  /\ alive.rider1
  /\ i \in DOMAIN rides /\ handle[i]
  /\ rider1' = [rider1 EXCEPT !.requestedRides = Append(@, i)]
  /\ useCount' = Retain(useCount, i, 1)
  /\ requestLog' = Append(requestLog, i)
  /\ out' = << "Ride requested by " \o rider1.name
               \o " (ID: " \o ToString(rider1.riderID) \o ")" >>
  /\ ret' = [fn |-> "none"]
  /\ UNCHANGED <<rides, handle, driver1, allRides, alive, coutFixed,
                 addLog>>

\* rider1.viewRides()
viewRides ==
  /\ alive.rider1
  /\ LET totalSpent ==
           SumFares(rides, rider1.requestedRides, 1, DZero(0))
     IN  out' = << "", "=== RIDER RIDE HISTORY ===",
                   "Rider: " \o rider1.name
                     \o " (ID: " \o ToString(rider1.riderID) \o ")",
                   "Total Rides: "
                     \o ToString(Len(rider1.requestedRides)) >>
                \o ViewLoop(rides, rider1.requestedRides, 1, coutFixed)
                \o << "", "Total Amount Spent: $"
                            \o FormatFixed2(totalSpent) >>
  /\ coutFixed' = TRUE
  /\ ret' = [fn |-> "none"]
  /\ UNCHANGED <<rides, useCount, handle, driver1, rider1, allRides, alive,
                 addLog, requestLog>>

\* std::vector<std::shared_ptr<Ride>> allRides = {h, ...}
MakeAllRides(v) ==
  /\ ~alive.allRides
  /\ \A k \in DOMAIN v : v[k] \in DOMAIN rides /\ handle[v[k]]
  /\ allRides' = v
  /\ alive' = [alive EXCEPT !.allRides = TRUE]
  /\ useCount' = RetainAll(useCount, v)
  /\ out' = <<>>
  /\ ret' = [fn |-> "none"]
  /\ UNCHANGED <<rides, handle, driver1, rider1, coutFixed,
                 addLog, requestLog>>

\* demonstratePolymorphism(allRides)
demonstratePolymorphism ==
  /\ alive.allRides
  /\ LET totalFares == SumFares(rides, allRides, 1, DZero(0))
     IN  out' = << "", "=== POLYMORPHISM DEMONSTRATION ===",
                   "Processing different ride types polymorphically:" >>
                \o PolyLoop(rides, allRides, 1, coutFixed)
                \o << "", "Total Fares for All Rides: $"
                            \o FormatFixed2(totalFares) >>
  /\ coutFixed' = TRUE
  /\ ret' = [fn |-> "none"]
  /\ UNCHANGED <<rides, useCount, handle, driver1, rider1, allRides, alive,
                 addLog, requestLog>>

\* fare() folding the luxury multiplier into the stored rate
CallFare_mutating(i) ==
  /\ i \in DOMAIN rides /\ handle[i]
  /\ ret' = [fn |-> "fare", ride |-> i, val |-> fare(rides[i])]
  /\ rides' = IF rides[i].cls = "PremiumRide"
              THEN [rides EXCEPT ![i].baseFareRate =
                      DMul(@, rides[i].luxuryMultiplier)]
              ELSE rides
  /\ out' = <<>>
  /\ UNCHANGED <<useCount, handle, driver1, rider1, allRides, alive,
                 coutFixed, addLog, requestLog>>

\* a direct call of rides[i].fare() by the holder of handle i
CallFare(i) ==
  /\ i \in DOMAIN rides /\ handle[i]
  /\ ret' = [fn |-> "fare", ride |-> i, val |-> fare(rides[i])]
  /\ out' = <<>>
  /\ UNCHANGED <<rides, useCount, handle, driver1, rider1, allRides, alive,
                 coutFixed, addLog, requestLog>>

\* a direct call of rides[i].getRideType()
CallGetRideType(i) ==
  /\ i \in DOMAIN rides /\ handle[i]
  /\ ret' = [fn |-> "getRideType", ride |-> i, val |-> getRideType(rides[i])]
  /\ out' = <<>>
  /\ UNCHANGED <<rides, useCount, handle, driver1, rider1, allRides, alive,
                 coutFixed, addLog, requestLog>>

\* a direct call of rides[i].rideDetails()
CallRideDetails(i) ==
  /\ i \in DOMAIN rides /\ handle[i]
  /\ out' = rideDetails(rides[i], coutFixed)
  /\ coutFixed' = TRUE
  /\ ret' = [fn |-> "rideDetails", ride |-> i]
  /\ UNCHANGED <<rides, useCount, handle, driver1, rider1, allRides, alive,
                 addLog, requestLog>>

\* the local shared_ptr of ride i goes out of scope
ReleaseHandle(i) ==
  /\ i \in DOMAIN rides /\ handle[i]
  /\ handle' = [handle EXCEPT ![i] = FALSE]
  /\ useCount' = Retain(useCount, i, -1)
  /\ out' = <<>>
  /\ ret' = [fn |-> "none"]
  /\ UNCHANGED <<rides, driver1, rider1, allRides, alive, coutFixed,
                 addLog, requestLog>>

\* driver1 goes out of scope: ~Driver destroys assignedRides
DestroyDriver ==
  /\ alive.driver1
  /\ alive' = [alive EXCEPT !.driver1 = FALSE]
  /\ useCount' = ReleaseAll(useCount, driver1.assignedRides)
  /\ driver1' = [driver1 EXCEPT !.assignedRides = <<>>]
  /\ out' = <<>>
  /\ ret' = [fn |-> "none"]
  /\ UNCHANGED <<rides, handle, rider1, allRides, coutFixed,
                 addLog, requestLog>>

\* rider1 goes out of scope: ~Rider destroys requestedRides
DestroyRider ==
  /\ alive.rider1
  /\ alive' = [alive EXCEPT !.rider1 = FALSE]
  /\ useCount' = ReleaseAll(useCount, rider1.requestedRides)
  /\ rider1' = [rider1 EXCEPT !.requestedRides = <<>>]
  /\ out' = <<>>
  /\ ret' = [fn |-> "none"]
  /\ UNCHANGED <<rides, handle, driver1, allRides, coutFixed,
                 addLog, requestLog>>

\* allRides goes out of scope
DestroyAllRides ==
  /\ alive.allRides
  /\ alive' = [alive EXCEPT !.allRides = FALSE]
  /\ useCount' = ReleaseAll(useCount, allRides)
  /\ allRides' = <<>>
  /\ out' = <<>>
  /\ ret' = [fn |-> "none"]
  /\ UNCHANGED <<rides, handle, driver1, rider1, coutFixed,
                 addLog, requestLog>>

(***************************************************************************)
(* The callers.  main() builds four rides, hands them to drivers, riders   *)
(* and a vector, and reports; the specifications below let a caller make   *)
(* the same calls in any order, with bounded numbers of rides and calls.   *)
(***************************************************************************)
\* the make_shared calls of main, in order
MainRides ==
  << [cls |-> "StandardRide", pickup |-> "Downtown", dropoff |-> "Airport",
      dist |-> <<0, 155, 1>>],
     [cls |-> "PremiumRide", pickup |-> "Hotel",
      dropoff |-> "Convention Center", dist |-> <<0, 82, 1>>],
     [cls |-> "StandardRide", pickup |-> "Mall", dropoff |-> "University",
      dist |-> <<0, 120, 1>>],
     [cls |-> "PremiumRide", pickup |-> "Airport",
      dropoff |-> "Luxury Resort", dist |-> <<0, 258, 1>>] >>

Lit(t) == DLit(t[1], t[2], t[3])

\* the k-th call of main, repeating after the fourth
MainArgs(k) == MainRides[((k - 1) % Len(MainRides)) + 1]

BoundedSeqs(S, n) == UNION {[1..k -> S] : k \in 0..n}

MaxDigits == 40
MaxDecimals == 2
MaxRides == 2
MaxLen == 2
MaxAdds == 3
MaxRefs == 2

\* ---- one ride, called directly --------------------------------------
FareLits == {<<s, n, k>> : s \in 0..1, n \in 0..MaxDigits, k \in 0..MaxDecimals}

NextFare ==
  \/ /\ rides = <<>>
     /\ \E cls \in {"StandardRide", "PremiumRide"}, t \in FareLits :
          MakeShared(cls, 1, "Downtown", "Airport", Lit(t))
  \/ CallFare(1)
  \/ CallGetRideType(1)
  \/ CallRideDetails(1)

SpecFare == Init /\ [][NextFare]_vars

\* ---- rides and the driver ---------------------------------------------
DriverRides ==
  { [cls |-> "PremiumRide", pickup |-> "Airport",
     dropoff |-> "Luxury Resort", dist |-> <<0, 258, 1>>],
    [cls |-> "PremiumRide", pickup |-> "Hotel",
     dropoff |-> "Convention Center", dist |-> <<0, 75, 2>>],
    [cls |-> "StandardRide", pickup |-> "Downtown", dropoff |-> "Airport",
     dist |-> <<0, 155, 1>>] }

NextDriver ==
  \/ /\ Len(rides) < MaxRides
     /\ \E a \in DriverRides :
          MakeShared(a.cls, Len(rides) + 1, a.pickup, a.dropoff, Lit(a.dist))
  \/ /\ Len(driver1.assignedRides) < MaxAdds
     /\ \E i \in DOMAIN rides : addRide(i)
  \/ getDriverInfo

SpecDriver == Init /\ [][NextDriver]_vars

\* ---- rides and the rider ----------------------------------------------
NextRider ==
  \/ /\ Len(rides) < MaxRides
     /\ \E k \in DOMAIN MainRides :
          MakeShared(MainRides[k].cls, Len(rides) + 1, MainRides[k].pickup,
                     MainRides[k].dropoff, Lit(MainRides[k].dist))
  \/ /\ Len(rider1.requestedRides) < MaxLen
     /\ \E i \in DOMAIN rides : requestRide(i)
  \/ viewRides

SpecRider == Init /\ [][NextRider]_vars

\* ---- rides and the vector of demonstratePolymorphism ------------------
NextPoly ==
  \/ /\ Len(rides) < MaxRides
     /\ \E k \in DOMAIN MainRides :
          MakeShared(MainRides[k].cls, Len(rides) + 1, MainRides[k].pickup,
                     MainRides[k].dropoff, Lit(MainRides[k].dist))
  \/ \E v \in BoundedSeqs(DOMAIN rides, MaxLen) : MakeAllRides(v)
  \/ demonstratePolymorphism
  \/ DestroyAllRides

SpecPoly == Init /\ [][NextPoly]_vars

\* ---- ownership: handles, holders and their destruction ----------------
Refs ==
  Len(driver1.assignedRides) + Len(rider1.requestedRides) + Len(allRides)

MakeMain ==
  /\ Len(rides) < MaxRides
  /\ MakeShared(MainArgs(Len(rides) + 1).cls, Len(rides) + 1,
                MainArgs(Len(rides) + 1).pickup,
                MainArgs(Len(rides) + 1).dropoff,
                Lit(MainArgs(Len(rides) + 1).dist))

NextLife ==
  \/ MakeMain
  \/ /\ Refs < MaxRefs
     /\ \E i \in DOMAIN rides : addRide(i)
  \/ /\ Refs < MaxRefs
     /\ \E i \in DOMAIN rides : requestRide(i)
  \/ \E v \in BoundedSeqs(DOMAIN rides, MaxRefs - Refs) : MakeAllRides(v)
  \/ \E i \in DOMAIN rides : ReleaseHandle(i)
  \/ DestroyDriver
  \/ DestroyRider
  \/ DestroyAllRides

SpecLife == Init /\ [][NextLife]_vars

\* ---- every operation on the rides of main -----------------------------
Next ==
  \/ MakeMain
  \/ /\ Refs < MaxRefs
     /\ \E i \in DOMAIN rides : addRide(i)
  \/ /\ Refs < MaxRefs
     /\ \E i \in DOMAIN rides : requestRide(i)
  \/ \E v \in BoundedSeqs(DOMAIN rides, MaxRefs - Refs) : MakeAllRides(v)
  \/ getDriverInfo
  \/ viewRides
  \/ demonstratePolymorphism
  \/ \E i \in DOMAIN rides : CallFare(i)
  \/ \E i \in DOMAIN rides : CallGetRideType(i)
  \/ \E i \in DOMAIN rides : CallRideDetails(i)

Spec == Init /\ [][Next]_vars

(***************************************************************************)
(* Properties                                                              *)
(***************************************************************************)
Front(q) == SubSeq(q, 1, Len(q) - 1)

Last(q) == q[Len(q)]

Count(q, i) == Cardinality({k \in DOMAIN q : q[k] = i})

\* the sum of fare() over the calls of a log, first call first
RECURSIVE LogSum(_, _)
LogSum(heap, log) ==
  IF log = <<>> THEN DZero(0)
  ELSE DAdd(LogSum(heap, Front(log)), fare(heap[Last(log)]))

\* the orders in which the calls of a log can be made
Reorderings(log) ==
  { [k \in DOMAIN log |-> log[p[k]]] :
      p \in { f \in [DOMAIN log -> DOMAIN log] :
                \A a, b \in DOMAIN log : a # b => f[a] # f[b] } }

NonNegative(x) == ~DLess(x, DZero(0))

IsReport(title) == Len(out) >= 2 /\ out[2] = title

DriverReport == IsReport("=== DRIVER INFORMATION ===")

RiderReport == IsReport("=== RIDER RIDE HISTORY ===")

PolyReport == IsReport("=== POLYMORPHISM DEMONSTRATION ===")

\* C1 as stated: the total earnings getDriverInfo prints are the sum of
\* fare() over the addRide calls, and every order of those calls gives the
\* same total
C1_EarningsAnyOrder ==
  DriverReport =>
    \A log \in Reorderings(addLog) :
      Last(out) = "Total Earnings: $" \o FormatFixed2(LogSum(rides, log))

\* C1 amended: the total earnings getDriverInfo prints are the sum of fare()
\* over the rides passed to addRide, once per call, accumulated in double
\* arithmetic in the order of the calls
C1_EarningsInCallOrder ==
  DriverReport =>
    /\ out[6] = "Total Rides Completed: " \o ToString(Len(addLog))
    /\ Last(out) = "Total Earnings: $" \o FormatFixed2(LogSum(rides, addLog))

\* a driver reported after three addRide calls, one ride twice, whose total
\* would print differently had the calls come in another order
C1_Witness ==
  /\ DriverReport
  /\ Len(addLog) = 3
  /\ \E a, b \in DOMAIN addLog : a # b /\ addLog[a] = addLog[b]
  /\ \E log \in Reorderings(addLog) :
       FormatFixed2(LogSum(rides, log)) # FormatFixed2(LogSum(rides, addLog))

\* C2: after N requestRide calls the rider's ride count is N and viewRides
\* reports N rides and the sum of fare() over the N requests; with no
\* request it reports 0 rides and 0.00
C2_RiderCountAndSpend ==
  /\ Len(rider1.requestedRides) = Len(requestLog)
  /\ RiderReport =>
       /\ out[4] = "Total Rides: " \o ToString(Len(requestLog))
       /\ Last(out) = "Total Amount Spent: $"
                        \o FormatFixed2(LogSum(rides, requestLog))
       /\ requestLog = <<>> =>
            /\ out[4] = "Total Rides: 0"
            /\ Last(out) = "Total Amount Spent: $0.00"

\* the rider reported after requesting the same ride twice
C2_Witness ==
  /\ RiderReport
  /\ Len(requestLog) = 2
  /\ requestLog[1] = requestLog[2]
  /\ out[4] = "Total Rides: 2"

\* C3: fare() of a StandardRide of non-negative distance d is 2.0 * d
C3_StandardFare ==
  (ret.fn = "fare" /\ rides[ret.ride].cls = "StandardRide"
     /\ NonNegative(rides[ret.ride].distance))
  => ret.val = DMul(DLit(0, 20, 1), rides[ret.ride].distance)

\* fare() returned 5.0 for a StandardRide of 2.5 miles
C3_Witness ==
  /\ ret.fn = "fare"
  /\ rides[ret.ride].cls = "StandardRide"
  /\ rides[ret.ride].distance = DLit(0, 25, 1)
  /\ ret.val = DLit(0, 5, 0)

\* |a - b| <= |a| / 10^15 for doubles of the same sign
RelClose(a, b) ==
  IF a.m = <<>> \/ b.m = <<>> THEN a.m = b.m
  ELSE LET e == IF a.e < b.e THEN a.e ELSE b.e
           X == BShl(a.m, a.e - e)
           Y == BShl(b.m, b.e - e)
           D == IF BCmp(X, Y) = 1 THEN BSub(X, Y) ELSE BSub(Y, X)
       IN  /\ a.s = b.s
           /\ BCmp(BMul(D, BMul(BFromInt(1000000000), BFromInt(1000000))),
                   X) # 1

\* C4 as stated: fare() of a PremiumRide of non-negative distance d is
\* 3.5 * d * 1.8, which is 6.3 * d
C4_PremiumFareExact ==
  (ret.fn = "fare" /\ rides[ret.ride].cls = "PremiumRide"
     /\ NonNegative(rides[ret.ride].distance))
  => /\ ret.val = DMul(DMul(DLit(0, 35, 1), rides[ret.ride].distance),
                       DLit(0, 18, 1))
     /\ ret.val = DMul(DLit(0, 63, 1), rides[ret.ride].distance)

\* C4 amended: fare() of a PremiumRide of non-negative distance d is the
\* double 3.5 * d * 1.8 (each product rounded); for d zero or d and the
\* products in the normal range of binary64 (no underflow, no overflow), as
\* all distances here are, it agrees with the double 6.3 * d to a relative
\* error of 10^-15 but need not equal it
C4_PremiumFare ==
  (ret.fn = "fare" /\ rides[ret.ride].cls = "PremiumRide"
     /\ NonNegative(rides[ret.ride].distance))
  => /\ ret.val = DMul(DMul(DLit(0, 35, 1), rides[ret.ride].distance),
                       DLit(0, 18, 1))
     /\ RelClose(ret.val, DMul(DLit(0, 63, 1), rides[ret.ride].distance))

\* fare() of a PremiumRide of 0.1 miles returned a double other than 6.3 * 0.1
C4_Witness ==
  /\ ret.fn = "fare"
  /\ rides[ret.ride].cls = "PremiumRide"
  /\ rides[ret.ride].distance = DLit(0, 1, 1)
  /\ ret.val # DMul(DLit(0, 63, 1), rides[ret.ride].distance)

\* the ride's own variant called directly, without virtual dispatch
DirectFare(r) ==
  IF r.cls = "PremiumRide" THEN PremiumRide_fare(r) ELSE StandardRide_fare(r)

DirectType(r) ==
  IF r.cls = "PremiumRide" THEN PremiumRide_getRideType(r)
  ELSE StandardRide_getRideType(r)

\* the detail block of a ride with the fare of its own variant
DirectDetails(r, fixed) ==
  (IF r.cls = "PremiumRide" THEN << "=== PREMIUM RIDE ===" >> ELSE <<>>)
  \o << "Ride ID: " \o ToString(r.rideID),
        "Pickup: " \o r.pickupLocation,
        "Dropoff: " \o r.dropoffLocation,
        "Distance: " \o FormatDouble(r.distance, fixed) \o " miles",
        "Fare: $" \o FormatFixed2(DirectFare(r)) >>
  \o (IF r.cls = "PremiumRide"
      THEN << "Luxury Multiplier: "
                \o FormatDouble(r.luxuryMultiplier, TRUE) \o "x" >>
      ELSE <<>>)

RECURSIVE DirectSum(_, _)
DirectSum(heap, v) ==
  IF v = <<>> THEN DZero(0)
  ELSE DAdd(DirectSum(heap, Front(v)), DirectFare(heap[Last(v)]))

RECURSIVE DirectPoly(_, _, _, _)
DirectPoly(heap, v, i, fixed) ==
  IF i > Len(v) THEN <<>>
  ELSE << "", "--- " \o DirectType(heap[v[i]]) \o " Ride ---" >>
       \o DirectDetails(heap[v[i]], fixed)
       \o DirectPoly(heap, v, i + 1, TRUE)

\* C5: what demonstratePolymorphism prints for each ride through the Ride
\* reference (type label, detail block, fare) is what the ride's concrete
\* variant gives when called directly, and the grand total is the sum of
\* the variant-specific fares
C5_Dispatch ==
  PolyReport =>
    /\ \E fixed \in BOOLEAN :
         SubSeq(out, 4, Len(out) - 2) = DirectPoly(rides, allRides, 1, fixed)
    /\ Last(out) = "Total Fares for All Rides: $"
                     \o FormatFixed2(DirectSum(rides, allRides))

\* demonstratePolymorphism ran over a StandardRide followed by a PremiumRide
C5_Witness ==
  /\ PolyReport
  /\ Len(allRides) = 2
  /\ rides[allRides[1]].cls = "StandardRide"
  /\ rides[allRides[2]].cls = "PremiumRide"
  /\ out[5] = "--- Standard Ride ---"
  /\ out[12] = "--- Premium Ride ---"

\* C6: in the scenario of main the Standard ride of 15.5 miles (ride 1)
\* reports fare 31.00, the Premium ride of 8.2 miles (ride 2) reports fare
\* 51.66, and the driver given ride 1 then ride 2 reports earnings 82.66
C6_MainScenario ==
  /\ \A k \in DOMAIN out :
       /\ out[k] = "Ride ID: 1" =>
            /\ out[k + 3] \in {"Distance: 15.5 miles", "Distance: 15.50 miles"}
            /\ out[k + 4] = "Fare: $31.00"
       /\ out[k] = "Ride ID: 2" =>
            /\ out[k + 3] \in {"Distance: 8.2 miles", "Distance: 8.20 miles"}
            /\ out[k + 4] = "Fare: $51.66"
  /\ (ret.fn = "fare" /\ ret.ride = 1) => FormatFixed2(ret.val) = "31.00"
  /\ (ret.fn = "fare" /\ ret.ride = 2) => FormatFixed2(ret.val) = "51.66"
  /\ (DriverReport /\ driver1.assignedRides = <<1, 2>>) =>
       Last(out) = "Total Earnings: $82.66"

\* driver1 reported after being given the two rides of main
C6_Witness ==
  /\ DriverReport
  /\ driver1.assignedRides = <<1, 2>>
  /\ rides[1].cls = "StandardRide" /\ rides[1].distance = DLit(0, 155, 1)
  /\ rides[2].cls = "PremiumRide" /\ rides[2].distance = DLit(0, 82, 1)
  /\ out[6] = "Total Rides Completed: 2"
  /\ out[7] = "Total Earnings: $82.66"

\* the ride main's k-th make_shared call constructs
AsConstructed(k) ==
  IF MainArgs(k).cls = "PremiumRide"
  THEN PremiumRide(k, MainArgs(k).pickup, MainArgs(k).dropoff,
                   Lit(MainArgs(k).dist))
  ELSE StandardRide(k, MainArgs(k).pickup, MainArgs(k).dropoff,
                    Lit(MainArgs(k).dist))

\* C7: no operation changes a constructed ride (id, pickup, dropoff,
\* distance, base fare rate, luxury multiplier), so a call of fare() returns,
\* at any point, the fare of the ride as it was constructed
C7_RidesImmutable ==
  [][/\ \A i \in DOMAIN rides :
          i \in DOMAIN rides' /\ rides'[i] = rides[i]
     /\ ret'.fn = "fare" =>
          ret'.val = fare(AsConstructed(ret'.ride))]_vars

\* a PremiumRide shared by the driver and the rider, after a report on it
C7_Witness ==
  /\ Len(rides) >= 2
  /\ Count(driver1.assignedRides, 2) = 1
  /\ Count(rider1.requestedRides, 2) = 1
  /\ RiderReport

\* C8 as stated: every ride that exists has distance >= 0 and base fare
\* rate > 0
C8_DistanceAndRate ==
  \A i \in DOMAIN rides :
    useCount[i] > 0 =>
      /\ NonNegative(rides[i].distance)
      /\ DLess(DZero(0), rides[i].baseFareRate)

\* C8 amended: every ride that exists has base fare rate > 0 (2.0 for a
\* StandardRide, 3.5 for a PremiumRide); its distance is the constructor's
\* argument as given, negative included
C8_RatePositive ==
  \A i \in DOMAIN rides :
    useCount[i] > 0 =>
      /\ DLess(DZero(0), rides[i].baseFareRate)
      /\ rides[i].baseFareRate =
           (IF rides[i].cls = "PremiumRide" THEN DLit(0, 35, 1)
            ELSE DLit(0, 20, 1))

\* a StandardRide constructed with distance -1.0 exists
C8_Witness ==
  \E i \in DOMAIN rides :
    /\ useCount[i] > 0
    /\ rides[i].cls = "StandardRide"
    /\ rides[i].distance = DLit(1, 1, 0)
    /\ DLess(rides[i].distance, DZero(0))

\* the blocks viewRides prints for the requests of a log, first first
RECURSIVE RequestBlocks(_, _, _, _)
RequestBlocks(heap, log, n, fixed) ==
  IF n = 0 THEN <<>>
  ELSE RequestBlocks(heap, log, n - 1, fixed)
       \o << "", "--- Ride " \o ToString(n) \o " ---" >>
       \o rideDetails(heap[log[n]], fixed \/ n > 1)

\* C9: viewRides prints the rides in request order, block "Ride i" being the
\* ride of the i-th requestRide call, and requestRide keeps the earlier
\* entries where they are
C9_RequestOrder ==
  /\ [](RiderReport =>
          \E fixed \in BOOLEAN :
            SubSeq(out, 5, Len(out) - 2)
              = RequestBlocks(rides, requestLog, Len(requestLog), fixed))
  /\ [][\A k \in DOMAIN rider1.requestedRides :
          /\ k \in DOMAIN rider1'.requestedRides
          /\ rider1'.requestedRides[k] = rider1.requestedRides[k]]_vars

\* the rider reported after requesting ride 2 and then ride 1
C9_Witness ==
  /\ RiderReport
  /\ requestLog = <<2, 1>>
  /\ out[6] = "--- Ride 1 ---"
  /\ \E k \in 7..8 : out[k] = "Ride ID: 2"

Holds(q, i) == \E k \in DOMAIN q : q[k] = i

\* C10 as stated: a ride is held only by the driver it was added to and the
\* rider that requested it, so it exists exactly as long as one of them
\* holds it
C10_HeldByDriverAndRiderOnly ==
  \A i \in DOMAIN rides :
    useCount[i] > 0
      <=> (Holds(driver1.assignedRides, i) \/ Holds(rider1.requestedRides, i))

\* C10 amended: a ride is held by the caller's shared_ptr that make_shared
\* returned, by the caller's allRides vector, by the driver it was added to
\* and by the rider that requested it; it exists while any of them holds it
\* and is destroyed when the last of them lets go
C10_Lifetime ==
  \A i \in DOMAIN rides :
    /\ useCount[i] = (IF handle[i] THEN 1 ELSE 0)
                       + Count(driver1.assignedRides, i)
                       + Count(rider1.requestedRides, i)
                       + Count(allRides, i)
    /\ useCount[i] > 0
         <=> \/ handle[i]
             \/ Holds(driver1.assignedRides, i)
             \/ Holds(rider1.requestedRides, i)
             \/ Holds(allRides, i)

\* ride 1 was destroyed after its handle, the driver and the rider that
\* held it were gone, while ride 2 lives on in allRides alone
C10_Witness ==
  /\ Len(rides) >= 2
  /\ useCount[1] = 0
  /\ Holds(addLog, 1) /\ Holds(requestLog, 1)
  /\ ~alive.driver1 /\ ~alive.rider1
  /\ useCount[2] = 1 /\ ~handle[2] /\ Holds(allRides, 2)

====
